---- MODULE Spec2Model ----
(***************************************************************************)
(* Checkout (POST /api/carts/:cid/purchase) and user registration          *)
(* (POST /users) of the BackEnd-III store, as state machines.              *)
(*                                                                         *)
(* The purchase handler is an async function: it runs without interruption *)
(* between two awaits, and other requests run while it awaits.  Each       *)
(* action below is one such uninterrupted stretch together with the        *)
(* database operation it awaits.                                           *)
(***************************************************************************)
EXTENDS Integers, Sequences, FiniteSets, TLC

\* ---- bounds of the model ----
MaxItems == 2
MaxQty == 2
MaxStock == 2
MaxPrice == 2
MaxRequests == 4

\* ---- universe ----
ProductIds == {"p1", "p2"}
CartIds == {"c1", "c2", "c3"}
NoCart == "c0"
Reqs == {"r1", "r2"}
Codes == {"A", "B"}
NoUser == "none"
Emails == {"a@x", "b@x", "c@x"}
Roles == {"", "admin"}

VARIABLES
    products,     \* Product collection: id -> [exists, stock, price]
    carts,        \* Cart collection: id -> [user, products]
    tickets,      \* Ticket collection, in insertion order
    pc,           \* per purchase request: position in the handler
    cid,          \* per request: req.params.cid
    cart,         \* per request: the loaded cart document
    docs,         \* per request: the populated product documents
    idx,          \* per request: position of the for..of loop
    totalAmount,  \* per request
    productsProcessed,
    productsNotProcessed,
    ticket,       \* per request: the created ticket (its position in the collection)
    error,        \* per request: what the catch clause caught
    resp,         \* per request: the answer sent
    stock0,       \* history: the stock every product started with
    loaded,       \* history: the line items every request loaded
    after,        \* history: the requests that had answered 200 when this one loaded its cart
    users,        \* User collection, in insertion order
    log           \* history: the answers of POST /users, in order

vars == <<products, carts, tickets, pc, cid, cart, docs, idx, totalAmount,
          productsProcessed, productsNotProcessed, ticket, error, resp, stock0, loaded, after,
          users, log>>

RECURSIVE SumSeq(_)
SumSeq(s) == IF s = <<>> THEN 0 ELSE Head(s) + SumSeq(Tail(s))

Range(s) == {s[i] : i \in DOMAIN s}

SeqsUpTo(S, n) == UNION {[1..k -> S] : k \in 0..n}

\* A line item as the request body of the cart endpoints gives it.
LineItems == [product : ProductIds, quantity : 1..MaxQty]

\* The line items of a stored cart; every subdocument has its own _id.
WithIds(c, s) == [i \in DOMAIN s |-> [id |-> <<c, i>>, product |-> s[i].product,
                                      quantity |-> s[i].quantity]]

NoProduct == [exists |-> FALSE, stock |-> 0, price |-> 0]
NoCartDoc == [user |-> NoUser, products |-> <<>>]
NoResp == [status |-> 0, ticket |-> 0, productsNotProcessed |-> <<>>]

\* ---- POST /:cid/purchase ----

\* Cart.findById(cid): null for an unknown id.
CartFound(c) == c \in CartIds

\* !cart.user is false
HasUserAlways(c) == TRUE

HasUser(c) == carts[c].user # NoUser

CanReserveNoStockCheck(product, quantity) == product.exists

\* the condition of the if in the loop: the product document is not null
\* and its stock covers the quantity
CanReserve(product, quantity) == product.exists /\ product.stock >= quantity

\* product.stock -= item.quantity
Reserved(product, quantity) == [product EXCEPT !.stock = @ - quantity]

LineAmountUnit(product, quantity) == product.price

\* totalAmount += product.price * item.quantity
LineAmount(product, quantity) == product.price * quantity

\* productsProcessed.map(...): the line items of the ticket
TicketLines(processed, d) ==
    [i \in DOMAIN processed |-> [product |-> processed[i].product,
                                 quantity |-> processed[i].quantity,
                                 price |-> d[processed[i].product].price]]

\* cart.products.filter(item => productsNotProcessed.includes(item.product._id))
Residual(items, notProcessed) ==
    SelectSeq(items, LAMBDA it : it.product \in Range(notProcessed))

\* The request is answered and the handler returns.
Answer(r, status, t, np) ==
    /\ resp' = [resp EXCEPT ![r] = [status |-> status, ticket |-> t,
                                    productsNotProcessed |-> np]]
    /\ pc' = [pc EXCEPT ![r] = "done"]

\* The requests are named in the order they arrive.
Arrives(r) ==
    /\ pc[r] = "idle"
    /\ r = "r2" => pc["r1"] # "idle"

\* Cart.findById(cid) answered null: 404.
CartNotFound(r, c) ==
    /\ Arrives(r)
    /\ ~CartFound(c)
    /\ cid' = [cid EXCEPT ![r] = c]
    /\ Answer(r, 404, 0, <<>>)
    /\ UNCHANGED <<products, carts, tickets, cart, docs, idx, totalAmount,
                   productsProcessed, productsNotProcessed, ticket, error, stock0, loaded, after,
                   users, log>>

\* The cart has no user: 400.
NoAssociatedUser(r, c) ==
    /\ Arrives(r)
    /\ CartFound(c)
    /\ ~HasUser(c)
    /\ cid' = [cid EXCEPT ![r] = c]
    /\ cart' = [cart EXCEPT ![r] = carts[c]]
    /\ Answer(r, 400, 0, <<>>)
    /\ UNCHANGED <<products, carts, tickets, docs, idx, totalAmount,
                   productsProcessed, productsNotProcessed, ticket, error, stock0, loaded, after,
                   users, log>>

\* The cart is loaded and its products are populated; the loop starts.
\* populate() resolves every product id once: line items of the same product
\* hold the same document, and a product that is gone is populated as null.
LoadCart(r, c) ==
    /\ Arrives(r)
    /\ CartFound(c)
    /\ HasUser(c)
    /\ cid' = [cid EXCEPT ![r] = c]
    /\ cart' = [cart EXCEPT ![r] = carts[c]]
    /\ docs' = [docs EXCEPT ![r] = products]
    /\ idx' = [idx EXCEPT ![r] = 1]
    /\ loaded' = [loaded EXCEPT ![r] = carts[c].products]
    /\ after' = [after EXCEPT ![r] = {q \in Reqs : pc[q] = "done" /\ resp[q].status = 200}]
    /\ pc' = [pc EXCEPT ![r] = "loop"]
    /\ UNCHANGED <<products, carts, tickets, totalAmount, productsProcessed,
                   productsNotProcessed, ticket, error, resp, stock0, users, log>>

\* One iteration whose item is reserved: the document's stock is lowered
\* and product.save() writes it to the collection.
ReserveItem(r) ==
    /\ pc[r] = "loop"
    /\ idx[r] <= Len(cart[r].products)
    /\ LET item == cart[r].products[idx[r]]
           product == docs[r][item.product]
       IN /\ CanReserve(product, item.quantity)
          /\ docs' = [docs EXCEPT ![r][item.product] = Reserved(product, item.quantity)]
          /\ products' = [products EXCEPT ![item.product].stock =
                              Reserved(product, item.quantity).stock]
          /\ totalAmount' = [totalAmount EXCEPT ![r] = @ + LineAmount(product, item.quantity)]
          /\ productsProcessed' = [productsProcessed EXCEPT ![r] = Append(@, item)]
    /\ idx' = [idx EXCEPT ![r] = @ + 1]
    /\ UNCHANGED <<carts, tickets, pc, cid, cart, productsNotProcessed, ticket, error, resp,
                   stock0, loaded, after, users, log>>

\* One iteration whose item is not reserved and whose product exists:
\* its product id goes to productsNotProcessed.
RejectItem(r) ==
    /\ pc[r] = "loop"
    /\ idx[r] <= Len(cart[r].products)
    /\ LET item == cart[r].products[idx[r]]
           product == docs[r][item.product]
       IN /\ ~CanReserve(product, item.quantity)
          /\ product.exists
          /\ productsNotProcessed' = [productsNotProcessed EXCEPT ![r] = Append(@, item.product)]
    /\ idx' = [idx EXCEPT ![r] = @ + 1]
    /\ UNCHANGED <<products, carts, tickets, pc, cid, cart, docs, totalAmount,
                   productsProcessed, ticket, error, resp, stock0, loaded, after, users, log>>

\* One iteration whose product document is null: product._id throws a
\* TypeError, the catch clause answers 500.
NullProduct(r) ==
    /\ pc[r] = "loop"
    /\ idx[r] <= Len(cart[r].products)
    /\ LET item == cart[r].products[idx[r]]
           product == docs[r][item.product]
       IN /\ ~CanReserve(product, item.quantity)
          /\ ~product.exists
    /\ error' = [error EXCEPT ![r] = "TypeError"]
    /\ Answer(r, 500, 0, <<>>)
    /\ UNCHANGED <<products, carts, tickets, cid, cart, docs, idx, totalAmount,
                   productsProcessed, productsNotProcessed, ticket, stock0, loaded, after, users, log>>

\* Math.random().toString(36).substr(2, 9).toUpperCase()
generateUniqueCode == Codes

\* Ticket.create(doc): the document is appended to the collection; the
\* ledger looks at no stored code.
TicketCreate(ledger, t) == Append(ledger, t)

\* The loop is over; the ticket is created.
CreateTicket(r) ==
    /\ pc[r] = "loop"
    /\ idx[r] > Len(cart[r].products)
    /\ \E code \in generateUniqueCode :
          tickets' = TicketCreate(tickets,
                        [code |-> code,
                         user |-> cart[r].user,
                         products |-> TicketLines(productsProcessed[r], docs[r]),
                         total |-> totalAmount[r]])
    /\ ticket' = [ticket EXCEPT ![r] = Len(tickets')]
    /\ pc' = [pc EXCEPT ![r] = "save"]
    /\ UNCHANGED <<products, carts, cid, cart, docs, idx, totalAmount,
                   productsProcessed, productsNotProcessed, error, resp, stock0, loaded, after,
                   users, log>>

\* the catch clause gives the reserved quantities back before it answers
CreateTicketFailsRollback(r) ==
    /\ pc[r] = "loop"
    /\ idx[r] > Len(cart[r].products)
    /\ products' = [p \in ProductIds |->
          [products[p] EXCEPT !.stock = @ + SumSeq([i \in DOMAIN productsProcessed[r] |->
                IF productsProcessed[r][i].product = p
                THEN productsProcessed[r][i].quantity ELSE 0])]]
    /\ error' = [error EXCEPT ![r] = "StorageFailure"]
    /\ Answer(r, 500, 0, <<>>)
    /\ UNCHANGED <<carts, tickets, cid, cart, docs, idx, totalAmount,
                   productsProcessed, productsNotProcessed, ticket, stock0, loaded, after, users, log>>

\* Ticket.create rejects: the catch clause answers 500.
CreateTicketFails(r) ==
    /\ pc[r] = "loop"
    /\ idx[r] > Len(cart[r].products)
    /\ error' = [error EXCEPT ![r] = "StorageFailure"]
    /\ Answer(r, 500, 0, <<>>)
    /\ UNCHANGED <<products, carts, tickets, cid, cart, docs, idx, totalAmount,
                   productsProcessed, productsNotProcessed, ticket, stock0, loaded, after, users, log>>

\* The cart keeps the filtered items and is saved; 200.
SaveCart(r) ==
    /\ pc[r] = "save"
    /\ cart' = [cart EXCEPT ![r].products = Residual(@, productsNotProcessed[r])]
    /\ carts' = [carts EXCEPT ![cid[r]].products = cart'[r].products]
    /\ Answer(r, 200, ticket[r], productsNotProcessed[r])
    /\ UNCHANGED <<products, tickets, cid, docs, idx, totalAmount,
                   productsProcessed, productsNotProcessed, ticket, error, stock0, loaded, after,
                   users, log>>

\* cart.save() rejects: the catch clause answers 500.
SaveCartFails(r) ==
    /\ pc[r] = "save"
    /\ cart' = [cart EXCEPT ![r].products = Residual(@, productsNotProcessed[r])]
    /\ error' = [error EXCEPT ![r] = "StorageFailure"]
    /\ Answer(r, 500, 0, <<>>)
    /\ UNCHANGED <<products, carts, tickets, cid, docs, idx, totalAmount,
                   productsProcessed, productsNotProcessed, ticket, stock0, loaded, after, users, log>>

\* The price of a product is changed through the product endpoints.
UpdatePrice(p, v) ==
    /\ products[p].exists
    /\ products[p].price < v
    /\ products' = [products EXCEPT ![p].price = v]
    /\ UNCHANGED <<carts, tickets, pc, cid, cart, docs, idx, totalAmount,
                   productsProcessed, productsNotProcessed, ticket, error, resp, stock0, loaded, after,
                   users, log>>

InitRequests ==
    /\ pc = [r \in Reqs |-> "idle"]
    /\ cid = [r \in Reqs |-> NoCart]
    /\ cart = [r \in Reqs |-> NoCartDoc]
    /\ docs = [r \in Reqs |-> [p \in ProductIds |-> NoProduct]]
    /\ idx = [r \in Reqs |-> 0]
    /\ totalAmount = [r \in Reqs |-> 0]
    /\ productsProcessed = [r \in Reqs |-> <<>>]
    /\ productsNotProcessed = [r \in Reqs |-> <<>>]
    /\ ticket = [r \in Reqs |-> 0]
    /\ error = [r \in Reqs |-> "none"]
    /\ resp = [r \in Reqs |-> NoResp]
    /\ loaded = [r \in Reqs |-> <<>>]
    /\ after = [r \in Reqs |-> {}]

Init ==
    /\ \E s1 \in 1..MaxStock, e2 \in BOOLEAN :
          products = [p \in ProductIds |->
                        IF p = "p1" THEN [exists |-> TRUE, stock |-> s1, price |-> 1]
                        ELSE IF e2 THEN [exists |-> TRUE, stock |-> MaxStock, price |-> MaxPrice]
                        ELSE NoProduct]
    /\ \E i1 \in SeqsUpTo(LineItems, MaxItems), q2 \in 1..MaxQty :
          carts = [c \in CartIds |->
                        IF c = "c1" THEN [user |-> "u1", products |-> WithIds(c, i1)]
                        ELSE [user |-> IF c = "c2" THEN "u2" ELSE NoUser,
                              products |-> WithIds(c, <<[product |-> "p1", quantity |-> q2]>>)]]
    /\ tickets = <<>>
    /\ stock0 = [p \in ProductIds |-> products[p].stock]
    /\ InitRequests
    /\ users = <<>>
    /\ log = <<>>

Next ==
    \/ \E r \in Reqs, c \in CartIds \cup {NoCart} : CartNotFound(r, c)
    \/ \E r \in Reqs, c \in CartIds \cup {NoCart} : NoAssociatedUser(r, c)
    \/ \E r \in Reqs, c \in CartIds \cup {NoCart} : LoadCart(r, c)
    \/ \E r \in Reqs : ReserveItem(r)
    \/ \E r \in Reqs : RejectItem(r)
    \/ \E r \in Reqs : NullProduct(r)
    \/ \E r \in Reqs : CreateTicket(r)
    \/ \E r \in Reqs : CreateTicketFails(r)
    \/ \E r \in Reqs : SaveCart(r)
    \/ \E r \in Reqs : SaveCartFails(r)
    \/ \E p \in ProductIds, v \in 1..MaxPrice : UpdatePrice(p, v)

Spec == Init /\ [][Next]_vars

\* ---- POST /users ----

UserExistsFirstOnly(us, email) == us # <<>> /\ us[1].email = email

\* User.findOne({ email }): a user with that email is stored
UserExists(us, email) == \E i \in DOMAIN us : us[i].email = email

\* new User({...}): role is req.body.role || "user"
NewUser(email, role) == [email |-> email, role |-> IF role = "" THEN "user" ELSE role]

\* One request, handled from its arrival to its answer: the requests of a
\* sequence are sent one after the other, each after the answer to the last.
PostUser(email, role) ==
    /\ Len(log) < MaxRequests
    /\ IF UserExists(users, email)
       THEN /\ users' = users
            /\ log' = Append(log, [email |-> email, status |-> 400,
                                   message |-> "El usuario ya existe"])
       ELSE /\ users' = Append(users, NewUser(email, role))
            /\ log' = Append(log, [email |-> email, status |-> 201,
                                   message |-> "Usuario creado exitosamente"])
    /\ UNCHANGED <<products, carts, tickets, pc, cid, cart, docs, idx, totalAmount,
                   productsProcessed, productsNotProcessed, ticket, error, resp,
                   stock0, loaded, after>>

InitUsers ==
    /\ products = [p \in ProductIds |-> NoProduct]
    /\ carts = [c \in CartIds |-> NoCartDoc]
    /\ tickets = <<>>
    /\ stock0 = [p \in ProductIds |-> 0]
    /\ InitRequests
    /\ users = <<>>
    /\ log = <<>>

NextUsers == \E email \in Emails, role \in Roles : PostUser(email, role)

SpecUsers == InitUsers /\ [][NextUsers]_vars

\* ---- the properties ----

Done(r) == pc[r] = "done"

\* the {product, quantity} pair of a line item
Pair(x) == [product |-> x.product, quantity |-> x.quantity]

\* how often a pair occurs in a list of line items
Count(s, x) == Cardinality({i \in DOMAIN s : Pair(s[i]) = x})

Ids(s) == {s[i].id : i \in DOMAIN s}

QtyIn(lines, p) ==
    SumSeq([i \in DOMAIN lines |-> IF lines[i].product = p THEN lines[i].quantity ELSE 0])

\* the quantity of product p over all tickets of the collection
TicketedQty(p) == SumSeq([i \in DOMAIN tickets |-> QtyIn(tickets[i].products, p)])

\* C1: once every checkout has finished without an error, and the checkouts
\* were on different carts, the stock of every product is its initial stock
\* minus the quantities of its line items in the tickets.
C1_StockIsInitialMinusTicketed ==
    ( /\ \A r \in Reqs : pc[r] \in {"idle", "done"} /\ error[r] = "none"
      /\ (Done("r1") /\ Done("r2")) => cid["r1"] # cid["r2"] )
    => \A p \in ProductIds :
          products[p].exists => products[p].stock = stock0[p] - TicketedQty(p)

\* C2: the stored stock of every product is never negative.
C2_StockNeverNegative == \A p \in ProductIds : products[p].stock >= 0

\* two checkouts that overlapped sold more of p1 than there was
C2_Witness ==
    /\ Done("r1") /\ Done("r2")
    /\ resp["r1"].status = 200 /\ resp["r2"].status = 200
    /\ "r1" \notin after["r2"]
    /\ cid["r1"] # cid["r2"]
    /\ TicketedQty("p1") > stock0["p1"]
    /\ products["p1"].stock >= 0

\* C3: after a checkout answered 200, the lines of its ticket together with
\* the items of the cart it saved are, as a multiset of {product, quantity}
\* pairs, the items it loaded.
C3_TicketPlusResidualIsLoaded ==
    \A r \in Reqs :
        (Done(r) /\ resp[r].status = 200) =>
            \A x \in LineItems :
                Count(tickets[ticket[r]].products, x) + Count(cart[r].products, x)
                    = Count(loaded[r], x)

\* the total of a ticket is the sum of quantity x price over its lines, and
\* the price of every line is the price its checkout loaded
TicketReconciles(r) ==
    LET t == tickets[ticket[r]]
    IN /\ t.total = SumSeq([i \in DOMAIN t.products |->
                                t.products[i].quantity * t.products[i].price])
       /\ \A i \in DOMAIN t.products :
             t.products[i].price = docs[r][t.products[i].product].price

\* C4: every ticket reconciles with its own lines in every state, and no
\* step changes a ticket of the collection.
C4_TicketTotalIsSumOfLines ==
    /\ [](\A r \in Reqs : ticket[r] # 0 => TicketReconciles(r))
    /\ [](\A i \in DOMAIN tickets : \E r \in Reqs : ticket[r] = i)
    /\ [][\A i \in DOMAIN tickets : i \in DOMAIN tickets' /\ tickets'[i] = tickets[i]]_vars

\* a ticket of two products, one of which has changed its price since
C4_Witness ==
    \E r \in Reqs :
        /\ ticket[r] # 0
        /\ Len(tickets[ticket[r]].products) = 2
        /\ \E i \in 1..2 :
              LET l == tickets[ticket[r]].products[i]
              IN products[l.product].price # l.price
        /\ tickets[ticket[r]].products[1].product # tickets[ticket[r]].products[2].product

\* C5: a request for an unknown cart is answered 404 and a request for a cart
\* without user 400; the step that answers so changes no stock, no cart and
\* no ticket, and such a request takes no other step.
C5_PreconditionFailureChangesNothing ==
    /\ [](\A r \in Reqs : pc[r] # "idle" =>
            /\ ~CartFound(cid[r]) => (Done(r) /\ resp[r].status = 404)
            /\ (CartFound(cid[r]) /\ cart[r].user = NoUser)
                  => (Done(r) /\ resp[r].status = 400))
    /\ [][\A r \in Reqs :
            (pc[r] = "idle" /\ pc'[r] = "done" /\ resp'[r].status \in {400, 404})
                => UNCHANGED <<products, carts, tickets>>]_vars

\* one request was answered 404 and the other 400
C5_Witness ==
    \E r, q \in Reqs :
        /\ Done(r) /\ resp[r].status = 404 /\ cid[r] = NoCart
        /\ Done(q) /\ resp[q].status = 400 /\ carts[cid[q]].products # <<>>

\* C6: a checkout of a cart that an earlier checkout has already answered 200
\* for reserves no line item the earlier one reserved.
C6_NoItemReservedTwice ==
    \A r \in Reqs : \A q \in after[r] :
        cid[q] = cid[r] => Ids(productsProcessed[r]) \cap Ids(productsProcessed[q]) = {}

\* C7: a checkout whose cart holds an item of a product that is gone, and that
\* meets no storage failure, is answered 200 with a ticket, and the item stays
\* in the saved cart.
C7_MissingProductIsNotProcessed ==
    \A r \in Reqs :
        ( /\ Done(r)
          /\ error[r] # "StorageFailure"
          /\ \E i \in DOMAIN loaded[r] : ~docs[r][loaded[r][i].product].exists )
        => /\ resp[r].status = 200
           /\ ticket[r] \in DOMAIN tickets
           /\ \A i \in DOMAIN loaded[r] :
                 ~docs[r][loaded[r][i].product].exists
                    => loaded[r][i].id \in Ids(cart[r].products)

\* C8: a finished checkout whose cart exists and has a user, and that met no
\* storage failure, was answered 200 and put exactly one ticket in the
\* collection; the collection holds no other tickets.
C8_OneTicketPerCheckout ==
    /\ \A r \in Reqs :
          ( /\ Done(r)
            /\ CartFound(cid[r])
            /\ cart[r].user # NoUser
            /\ error[r] # "StorageFailure" )
          => /\ resp[r].status = 200
             /\ ticket[r] \in DOMAIN tickets
             /\ \A q \in Reqs \ {r} : ticket[q] # ticket[r]
    /\ Len(tickets) = Cardinality({r \in Reqs : ticket[r] # 0})

\* C9: no two tickets of the collection have the same code.
C9_TicketCodesUnique ==
    \A i, j \in DOMAIN tickets : i # j => tickets[i].code # tickets[j].code

StorageFails(r) == error[r] = "none" /\ error'[r] = "StorageFailure"

\* C11: the step in which Ticket.create or cart.save() fails answers 500 and
\* changes no stock, no stored cart and no stored ticket, and when it is
\* Ticket.create the request has no ticket.  So a checkout that failed so
\* leaves the stock it had written: where no other request reserved anything,
\* the stock of every product is its initial stock minus what the failed
\* checkout reserved; and after a failed Ticket.create, where no other
\* checkout saved the cart, the cart holds the line items that were loaded.
C11_StorageFailureKeepsDecrements ==
    /\ [][\A r \in Reqs : StorageFails(r) =>
            /\ resp'[r].status = 500 /\ pc'[r] = "done"
            /\ UNCHANGED <<products, carts, tickets>>
            /\ pc[r] = "loop" => ticket'[r] = 0]_vars
    /\ [](\A r \in Reqs : error[r] = "StorageFailure" =>
            /\ Done(r) /\ resp[r].status = 500
            /\ Len(tickets) = Cardinality({q \in Reqs : ticket[q] # 0})
            /\ (\A q \in Reqs \ {r} : productsProcessed[q] = <<>>)
                 => \A p \in ProductIds :
                       products[p].stock = stock0[p] - QtyIn(productsProcessed[r], p)
            /\ ( /\ ticket[r] = 0
                 /\ \A q \in Reqs \ {r} : ~(cid[q] = cid[r] /\ pc[q] = "done"
                                             /\ resp[q].status = 200) )
                 => carts[cid[r]].products = loaded[r])

\* one checkout failed at Ticket.create and the other at cart.save(), each
\* after it had reserved an item, and the stock is below the initial stock
C11_Witness ==
    \E r, q \in Reqs :
        /\ error[r] = "StorageFailure" /\ ticket[r] = 0
        /\ productsProcessed[r] # <<>>
        /\ error[q] = "StorageFailure" /\ ticket[q] # 0
        /\ productsProcessed[q] # <<>>
        /\ resp[r].status = 500 /\ resp[q].status = 500
        /\ \E p \in ProductIds : products[p].stock < stock0[p]
        /\ carts[cid[r]].products = loaded[r]
====
